---- MODULE Spec2Model ----
(***************************************************************************)
(* A model of examples/mixed_project/script.py: the module body (the two   *)
(* def statements and the __main__ guard), main's four statements, greet,  *)
(* and the text the three print calls put on standard output.              *)
(*                                                                         *)
(* A string is a sequence of one-character strings, so the f-strings, the  *)
(* list's str() and the newline print adds are computed, not assumed.      *)
(* A run is one execution of the module body in a fresh interpreter; runs  *)
(* follow each other, and prev keeps what the run before left behind.      *)
(***************************************************************************)
EXTENDS Integers, Sequences, FiniteSets, TLC

VARIABLES
    pc,        \* the statement about to execute
    modname,   \* __name__ of the module in this run
    ns,        \* names bound in the module namespace
    locals,    \* main's local bindings: a sequence of <<name, value>>
    stack,     \* main's evaluation stack (greet's result before it is printed)
    exc,       \* the exception being propagated, "none" when there is none
    stdout,    \* the characters written to standard output in this run
    status,    \* "running", or how the module body ended
    attempts,  \* print calls begun in this run
    writes,    \* print calls whose write was accepted in this run
    calls,     \* the calls of greet made in this run: [name, result]
    prev       \* the run before this one, as it ended

vars == <<pc, modname, ns, locals, stack, exc, stdout, status, attempts,
          writes, calls, prev>>

(***************************************************************************)
(* Bounds of the model.                                                    *)
(***************************************************************************)
MaxNameLen == 2

Alphabet == {"a", "{", "\n"}

(***************************************************************************)
(* Text.                                                                   *)
(***************************************************************************)
NL == <<"\n">>

World == <<"W", "o", "r", "l", "d">>

HelloFromPython ==
    <<"H", "e", "l", "l", "o", " ", "f", "r", "o", "m", " ",
      "P", "y", "t", "h", "o", "n", "!">>

Digits == <<"0", "1", "2", "3", "4", "5", "6", "7", "8", "9">>

RECURSIVE IntRepr(_)
\* repr() of an int: its decimal digits, most significant first
IntRepr(n) ==
    IF n < 0 THEN <<"-">> \o IntRepr(-n)
    ELSE IF n < 10 THEN <<Digits[n + 1]>>
    ELSE IntRepr(n \div 10) \o <<Digits[(n % 10) + 1]>>

RECURSIVE JoinReprNoSpace(_)
\* a variant of JoinRepr that separates with "," alone
JoinReprNoSpace(xs) ==
    IF Len(xs) = 0 THEN <<>>
    ELSE IF Len(xs) = 1 THEN IntRepr(xs[1])
    ELSE IntRepr(xs[1]) \o <<",">> \o JoinReprNoSpace(Tail(xs))

RECURSIVE JoinRepr(_)
\* ", ".join(repr(x) for x in xs)
JoinRepr(xs) ==
    IF Len(xs) = 0 THEN <<>>
    ELSE IF Len(xs) = 1 THEN IntRepr(xs[1])
    ELSE IntRepr(xs[1]) \o <<",", " ">> \o JoinRepr(Tail(xs))

\* str() of a list of ints
ListStr(xs) == <<"[">> \o JoinRepr(xs) \o <<"]">>

RECURSIVE FString(_)
\* an f-string: its parts, literal text and formatted values, joined in order
FString(parts) ==
    IF Len(parts) = 0 THEN <<>> ELSE Head(parts) \o FString(Tail(parts))

(***************************************************************************)
(* greet, line 3.                                                          *)
(***************************************************************************)
\* a variant of greet whose template lacks the closing "!"
greetNoBang(name) == FString(<<<<"H", "e", "l", "l", "o", ",", " ">>, name>>)

greet(name) ==
    FString(<<<<"H", "e", "l", "l", "o", ",", " ">>, name, <<"!">>>>)

(***************************************************************************)
(* The list comprehension of line 11.                                      *)
(***************************************************************************)
Range(n) == [k \in 1..n |-> k - 1]

\* a variant of line 11 that ranges over the length of greet's argument
ListCompOfArg ==
    LET r == Range(IF Len(calls) = 0 THEN 0 ELSE Len(calls[Len(calls)].name))
    IN  [k \in 1..Len(r) |-> r[k] * 2]

\* a variant of line 11 whose range grows once a run has gone before
ListCompGrowing ==
    LET r == Range(IF prev.ran THEN 6 ELSE 5)
    IN  [k \in 1..Len(r) |-> r[k] * 2]

\* a variant of line 11 that squares instead of doubling
ListCompSquare ==
    LET r == Range(5)
    IN  [k \in 1..Len(r) |-> r[k] * r[k]]

\* [i * 2 for i in range(5)]
ListComp ==
    LET r == Range(5)
    IN  [k \in 1..Len(r) |-> r[k] * 2]

NumbersLine(numbers) ==
    FString(<<<<"N", "u", "m", "b", "e", "r", "s", ":", " ">>, ListStr(numbers)>>)

Bound(l, n) == \E k \in 1..Len(l) : l[k][1] = n

Lookup(l, n) == l[CHOOSE k \in 1..Len(l) : l[k][1] = n][2]

(***************************************************************************)
(* A run: __name__ is "__main__" when the file is executed, the module's   *)
(* own name when it is imported.                                           *)
(***************************************************************************)
ModNames == {"__main__", "script"}

SeqsUpTo(S, n) == UNION {[1..k -> S] : k \in 0..n}

Names == SeqsUpTo(Alphabet, MaxNameLen) \cup {World}

NoRun ==
    [ran |-> FALSE, modname |-> "__main__", ns |-> {}, locals |-> <<>>,
     stdout |-> <<>>, status |-> "running", attempts |-> 0, writes |-> 0,
     calls |-> <<>>]

ThisRun ==
    [ran |-> TRUE, modname |-> modname, ns |-> ns, locals |-> locals,
     stdout |-> stdout, status |-> status, attempts |-> attempts,
     writes |-> writes, calls |-> calls]

\* the interpreter's state when it starts on line 1
Fresh(m) ==
    /\ pc = "l3"
    /\ modname = m
    /\ ns = {}
    /\ locals = <<>>
    /\ stack = <<>>
    /\ exc = "none"
    /\ stdout = <<>>
    /\ status = "running"
    /\ attempts = 0
    /\ writes = 0
    /\ calls = <<>>

Init ==
    /\ \E m \in ModNames : Fresh(m)
    /\ prev = NoRun

(***************************************************************************)
(* print, as main uses it: the text and a newline go to standard output,   *)
(* or the write fails and print raises. No statement of main is inside a   *)
(* try, so the exception leaves main.                                      *)
(***************************************************************************)
\* a variant of WriteFails in which the exception is caught and main goes on
WriteFailsSwallowed(next) ==
    /\ pc' = next
    /\ UNCHANGED <<exc, stdout, writes>>

\* a variant of WriteFails in which part of the line reaches the output
WriteFailsPartial(next) ==
    /\ exc' = "OSError"
    /\ pc' = "raise_main"
    /\ stdout' = stdout \o <<"?">>
    /\ UNCHANGED writes

\* the write is refused: print raises, nothing is written
WriteFails(next) ==
    /\ exc' = "OSError"
    /\ pc' = "raise_main"
    /\ UNCHANGED <<stdout, writes>>

print(s, next) ==
    /\ attempts' = attempts + 1
    /\ \E accepted \in BOOLEAN :
          IF accepted
          THEN /\ stdout' = stdout \o s \o NL
               /\ writes' = writes + 1
               /\ pc' = next
               /\ UNCHANGED exc
          ELSE WriteFails(next)

(***************************************************************************)
(* The module body, lines 3 to 15.                                         *)
(***************************************************************************)
DefGreet ==
    /\ pc = "l3"
    /\ ns' = ns \cup {"greet"}
    /\ pc' = "l6"
    /\ UNCHANGED <<modname, locals, stack, exc, stdout, status, attempts,
                   writes, calls, prev>>

DefMain ==
    /\ pc = "l6"
    /\ ns' = ns \cup {"main"}
    /\ pc' = "l14"
    /\ UNCHANGED <<modname, locals, stack, exc, stdout, status, attempts,
                   writes, calls, prev>>

\* a variant of the guard that holds under every module name
GuardAlways == TRUE

\* line 14: __name__ == "__main__"
IsMain == modname = "__main__"

Guard ==
    /\ pc = "l14"
    /\ IF IsMain
       THEN pc' = "l15" /\ UNCHANGED status
       ELSE pc' = "end" /\ status' = "success"
    /\ UNCHANGED <<modname, ns, locals, stack, exc, stdout, attempts, writes,
                   calls, prev>>

CallMain ==
    /\ pc = "l15"
    /\ "main" \in ns
    /\ pc' = "l7"
    /\ UNCHANGED <<modname, ns, locals, stack, exc, stdout, status, attempts,
                   writes, calls, prev>>

(***************************************************************************)
(* main, lines 7 to 12.                                                    *)
(***************************************************************************)
MainLine7 ==
    /\ pc = "l7"
    /\ print(HelloFromPython, "l8")
    /\ UNCHANGED <<modname, ns, locals, stack, status, calls, prev>>

\* a variant of the call in which greet also writes its argument
GreetCallEchoes(name) ==
    /\ pc = "l8"
    /\ "greet" \in ns
    /\ stack' = <<greet(name)>>
    /\ calls' = Append(calls, [name |-> name, result |-> greet(name)])
    /\ stdout' = stdout \o name
    /\ pc' = "l8p"
    /\ UNCHANGED <<modname, ns, locals, exc, status, attempts, writes, prev>>

\* line 8, the call: greet(name) is evaluated and its result is on the stack
GreetCall(name) ==
    /\ pc = "l8"
    /\ "greet" \in ns
    /\ stack' = <<greet(name)>>
    /\ calls' = Append(calls, [name |-> name, result |-> greet(name)])
    /\ pc' = "l8p"
    /\ UNCHANGED <<modname, ns, locals, exc, stdout, status, attempts, writes,
                   prev>>

\* line 8, the print of greet's result
MainLine8 ==
    /\ pc = "l8p"
    /\ print(Head(stack), "l11")
    /\ stack' = <<>>
    /\ UNCHANGED <<modname, ns, locals, status, calls, prev>>

\* a variant of line 11 that waits and never goes on
MainLine11Waits ==
    /\ pc = "l11"
    /\ UNCHANGED vars

MainLine11 ==
    /\ pc = "l11"
    /\ locals' = Append(locals, <<"numbers", ListComp>>)
    /\ pc' = "l12"
    /\ UNCHANGED <<modname, ns, stack, exc, stdout, status, attempts, writes,
                   calls, prev>>

MainLine12 ==
    /\ pc = "l12"
    /\ print(NumbersLine(Lookup(locals, "numbers")), "ret")
    /\ UNCHANGED <<modname, ns, locals, stack, status, calls, prev>>

\* main returns to line 15, the last statement of the module
MainReturn ==
    /\ pc = "ret"
    /\ pc' = "end"
    /\ status' = "success"
    /\ UNCHANGED <<modname, ns, locals, stack, exc, stdout, attempts, writes,
                   calls, prev>>

\* the exception leaves main: lines 7 to 12 have no handler
UnwindMain ==
    /\ pc = "raise_main"
    /\ pc' = "raise_module"
    /\ UNCHANGED <<modname, ns, locals, stack, exc, stdout, status, attempts,
                   writes, calls, prev>>

\* the exception leaves the module: line 15 has no handler
UnwindModule ==
    /\ pc = "raise_module"
    /\ pc' = "end"
    /\ status' = "failure"
    /\ UNCHANGED <<modname, ns, locals, stack, exc, stdout, attempts, writes,
                   calls, prev>>

(***************************************************************************)
(* The next run: a new interpreter, line 1.                                *)
(***************************************************************************)
StartRun ==
    /\ pc = "end"
    /\ prev' = ThisRun
    /\ pc' = "l3"
    /\ modname' \in ModNames
    /\ ns' = {}
    /\ locals' = <<>>
    /\ stack' = <<>>
    /\ exc' = "none"
    /\ stdout' = <<>>
    /\ status' = "running"
    /\ attempts' = 0
    /\ writes' = 0
    /\ calls' = <<>>

Exec(names) ==
    \/ DefGreet
    \/ DefMain
    \/ Guard
    \/ CallMain
    \/ MainLine7
    \/ \E name \in names : GreetCall(name)
    \/ MainLine8
    \/ MainLine11
    \/ MainLine12
    \/ MainReturn
    \/ UnwindMain
    \/ UnwindModule

\* the program as written: line 8 passes "World"
Next == Exec({World}) \/ StartRun

Spec == Init /\ [][Next]_vars

\* the interpreter keeps executing until the module body ends
FairSpec == Spec /\ WF_vars(Exec({World}))

\* the program with any name in place of line 8's literal
NextAnyName == Exec(Names) \/ StartRun

SpecAnyName == Init /\ [][NextAnyName]_vars

(***************************************************************************)
(* The output the specification lists, written out character by character. *)
(***************************************************************************)
ExpectedLines ==
    <<<<"H", "e", "l", "l", "o", " ", "f", "r", "o", "m", " ",
        "P", "y", "t", "h", "o", "n", "!">>,
      <<"H", "e", "l", "l", "o", ",", " ", "W", "o", "r", "l", "d", "!">>,
      <<"N", "u", "m", "b", "e", "r", "s", ":", " ",
        "[", "0", ",", " ", "2", ",", " ", "4", ",", " ", "6", ",", " ", "8", "]">>>>

RECURSIVE ExpectedPrefix(_)
\* the first k expected lines, each ended by a newline
ExpectedPrefix(k) ==
    IF k = 0 THEN <<>>
    ELSE ExpectedPrefix(k - 1) \o ExpectedLines[k] \o <<"\n">>

ExpectedOutput == ExpectedPrefix(3)

\* the last line of a text that ends with a newline
LastLine(s) ==
    LET body == SubSeq(s, 1, Len(s) - 1)
        nls == {k \in 1..Len(body) : body[k] = "\n"}
        start == IF nls = {} THEN 1
                 ELSE (CHOOSE k \in nls : \A j \in nls : j <= k) + 1
    IN  SubSeq(body, start, Len(body))

AllWritesAccepted == writes = attempts

RanAsMain == pc = "end" /\ modname = "__main__"

(***************************************************************************)
(* C1: when every write is accepted, a run of main leaves exactly the      *)
(* three expected lines on standard output, in order and with nothing      *)
(* else, and ends normally; on the way the output is always the first      *)
(* lines of that text.                                                     *)
(***************************************************************************)
C1_ThreeLinesInOrder ==
    /\ (RanAsMain /\ AllWritesAccepted) =>
          /\ stdout = ExpectedOutput
          /\ writes = 3
          /\ status = "success"
    /\ AllWritesAccepted => stdout = ExpectedPrefix(writes)

C1_Witness ==
    /\ RanAsMain
    /\ AllWritesAccepted
    /\ stdout = ExpectedOutput
    /\ status = "success"

(***************************************************************************)
(* C2: for every name, greet(name) is "Hello, " then name then "!": its    *)
(* length is len(name) + 8, it starts with "Hello, ", ends with "!", has   *)
(* name unchanged in between; and every name is accepted (the call is      *)
(* possible and raises nothing).                                           *)
(***************************************************************************)
C2_GreetResult ==
    /\ \A k \in 1..Len(calls) :
          LET n == calls[k].name
              r == calls[k].result
          IN  /\ Len(r) = Len(n) + 8
              /\ SubSeq(r, 1, 7) = <<"H", "e", "l", "l", "o", ",", " ">>
              /\ r[Len(r)] = "!"
              /\ SubSeq(r, 8, Len(r) - 1) = n
    /\ pc = "l8" => \A n \in Names : ENABLED GreetCall(n)
    /\ pc = "l8p" => exc = "none" /\ stack = <<calls[Len(calls)].result>>

C2_Witness ==
    /\ pc = "l8p"
    /\ calls[1].name = <<"{", "\n">>
    /\ stack = <<<<"H", "e", "l", "l", "o", ",", " ", "{", "\n", "!">>>>
    /\ prev.ran
    /\ Len(prev.calls) = 1
    /\ prev.calls[1].name = <<>>
    /\ prev.calls[1].result = <<"H", "e", "l", "l", "o", ",", " ", "!">>

(***************************************************************************)
(* C3: whenever main has computed numbers it is [0, 2, 4, 6, 8]: five      *)
(* elements, the one at position i being i * 2, in a first run and in any  *)
(* run after it.                                                           *)
(***************************************************************************)
C3_NumbersValue ==
    Bound(locals, "numbers") =>
        LET v == Lookup(locals, "numbers")
        IN  /\ v = <<0, 2, 4, 6, 8>>
            /\ Len(v) = 5
            /\ \A i \in 0..4 : v[i + 1] = i * 2

C3_Witness ==
    /\ Bound(locals, "numbers")
    /\ prev.ran
    /\ Bound(prev.locals, "numbers")

(***************************************************************************)
(* C4: once a write has failed the exception stays raised, no statement    *)
(* of main runs, nothing more is written or attempted, and the run ends    *)
(* in failure, never in success.                                           *)
(***************************************************************************)
C4_FailurePropagates ==
    /\ [](attempts > writes =>
            /\ exc = "OSError"
            /\ pc \in {"raise_main", "raise_module", "end"}
            /\ status # "success"
            /\ (pc = "end" => status = "failure"))
    /\ [][(attempts > writes /\ pc # "end") =>
            /\ stdout' = stdout
            /\ attempts' = attempts
            /\ writes' = writes
            /\ exc' = exc]_vars

C4_Witness ==
    /\ attempts = 2
    /\ writes = 1
    /\ pc = "end"
    /\ status = "failure"
    /\ stdout = ExpectedPrefix(1)

(***************************************************************************)
(* C5: a run that follows another starts from the interpreter's initial    *)
(* state; two runs in a row with the same module name and the same writes  *)
(* accepted end in the same state, and when both are complete runs of      *)
(* main both outputs are the three expected lines.                         *)
(***************************************************************************)
C5_RunsIndependent ==
    /\ (prev.ran /\ pc = "l3") =>
          /\ ns = {} /\ locals = <<>> /\ stack = <<>> /\ calls = <<>>
          /\ stdout = <<>> /\ attempts = 0 /\ writes = 0
          /\ exc = "none" /\ status = "running"
    /\ (prev.ran /\ pc = "end" /\ prev.modname = modname
            /\ prev.attempts = attempts /\ prev.writes = writes) =>
          /\ stdout = prev.stdout
          /\ status = prev.status
          /\ locals = prev.locals
          /\ calls = prev.calls
          /\ ns = prev.ns
    /\ (prev.ran /\ RanAsMain /\ prev.modname = "__main__"
            /\ status = "success" /\ prev.status = "success") =>
          /\ stdout = ExpectedOutput
          /\ prev.stdout = ExpectedOutput

C5_Witness ==
    /\ prev.ran
    /\ prev.modname = "__main__"
    /\ prev.status = "success"
    /\ RanAsMain
    /\ status = "success"
    /\ stdout = prev.stdout
    /\ stdout = ExpectedOutput

(***************************************************************************)
(* C6: the numbers main computes do not depend on the name passed to       *)
(* greet: in every run they are five, in two runs in a row they are the    *)
(* same, and the last line written by two complete runs is the same        *)
(* "Numbers: [0, 2, 4, 6, 8]".                                             *)
(***************************************************************************)
C6_NumbersIndependentOfName ==
    /\ Bound(locals, "numbers") => Len(Lookup(locals, "numbers")) = 5
    /\ (prev.ran /\ Bound(prev.locals, "numbers") /\ Bound(locals, "numbers")) =>
          Lookup(locals, "numbers") = Lookup(prev.locals, "numbers")
    /\ (prev.ran /\ prev.writes = 3 /\ writes = 3) =>
          /\ LastLine(stdout) = LastLine(prev.stdout)
          /\ LastLine(stdout) = ExpectedLines[3]

C6_Witness ==
    /\ prev.ran
    /\ prev.writes = 3
    /\ writes = 3
    /\ prev.calls[1].name = World
    /\ calls[1].name = <<"a", "\n">>
    /\ LastLine(stdout) = LastLine(prev.stdout)

(***************************************************************************)
(* C7: every run that starts reaches the end of the module body; a run of  *)
(* main whose writes were all accepted ends with the success status after  *)
(* exactly three writes, and no run ends with a status other than success  *)
(* or failure.                                                             *)
(***************************************************************************)
C7_Terminates ==
    /\ (pc = "l3") ~> (pc = "end")
    /\ []((RanAsMain /\ AllWritesAccepted) =>
            /\ status = "success"
            /\ attempts = 3
            /\ writes = 3)
    /\ [](pc = "end" <=> status \in {"success", "failure"})

C7_Witness ==
    /\ RanAsMain
    /\ AllWritesAccepted
    /\ status = "success"
    /\ writes = 3

(***************************************************************************)
(* C8: the call of greet changes nothing but main's evaluation stack: it   *)
(* writes nothing; standard output grows only in the print steps of lines  *)
(* 7, 8 and 12, one print at a time; and two calls of greet with the same  *)
(* name, in this run or the one before, return the same string.            *)
(***************************************************************************)
C8_GreetNoSideEffects ==
    /\ [][(pc = "l8" /\ pc' = "l8p") =>
            /\ stdout' = stdout
            /\ ns' = ns
            /\ locals' = locals
            /\ exc' = exc
            /\ status' = status
            /\ attempts' = attempts
            /\ writes' = writes
            /\ modname' = modname]_vars
    /\ [][(stdout' # stdout /\ pc # "end") =>
            /\ pc \in {"l7", "l8p", "l12"}
            /\ attempts' = attempts + 1]_vars
    /\ [](\A c \in {calls[k] : k \in 1..Len(calls)}
                   \cup {prev.calls[k] : k \in 1..Len(prev.calls)} :
          \A d \in {calls[k] : k \in 1..Len(calls)}
                   \cup {prev.calls[k] : k \in 1..Len(prev.calls)} :
             c.name = d.name => c.result = d.result)

C8_Witness ==
    /\ pc = "l8p"
    /\ stdout = ExpectedPrefix(1)
    /\ calls[1].name = <<"a">>
    /\ prev.ran
    /\ Len(prev.calls) = 1
    /\ prev.calls[1].name = <<"a">>

(***************************************************************************)
(* C9: in every state the output is the first lines of the expected text,  *)
(* as many as writes were accepted; at most one write fails, and when the  *)
(* k-th fails the output is the first k - 1 lines.                         *)
(***************************************************************************)
C9_OutputIsPrefix ==
    /\ writes \in 0..3
    /\ attempts - writes \in {0, 1}
    /\ stdout = ExpectedPrefix(writes)
    /\ attempts > writes => stdout = ExpectedPrefix(attempts - 1)

C9_Witness ==
    /\ attempts = 3
    /\ writes = 2
    /\ stdout = ExpectedPrefix(2)
    /\ pc = "end"

(***************************************************************************)
(* C10: under a module name other than "__main__" the module body defines  *)
(* greet and main and ends; main is not called, greet is not called and    *)
(* nothing is written.                                                     *)
(***************************************************************************)
C10_ImportDoesNotRunMain ==
    /\ pc \in {"l15", "l7", "l8", "l8p", "l11", "l12", "ret", "raise_main",
               "raise_module"} => modname = "__main__"
    /\ modname # "__main__" =>
          /\ stdout = <<>>
          /\ attempts = 0
          /\ calls = <<>>
          /\ locals = <<>>
          /\ (pc = "end" => ns = {"greet", "main"} /\ status = "success")

C10_Witness ==
    /\ modname = "script"
    /\ pc = "end"
    /\ ns = {"greet", "main"}
    /\ stdout = <<>>

====
